---- MODULE Spec2Model ----
(***************************************************************************)
(* Model of the Jansarthi portal server (src/server.js): the admin OTP     *)
(* challenge, complaint / missing-person submission, the mark-resolved     *)
(* transition and the public tracking pages, over the PostgreSQL tables    *)
(* the server creates.                                                     *)
(*                                                                         *)
(* Each Express handler is one action per store round trip: a handler      *)
(* whose body awaits a single pool.query is atomic, POST /adminLogin       *)
(* awaits a SELECT and then an UPDATE or INSERT and is two steps, so other *)
(* requests interleave between them.  Time is counted in minutes.          *)
(***************************************************************************)
EXTENDS Integers, Sequences, FiniteSets, TLC

\* ------------------------------------------------------------------ bounds
MaxTime == 6
MaxProcs == 2
MaxAdmins == 2
MaxComplaints == 2
MaxMissing == 2
MaxDraw == 1

\* --------------------------------------------------------------- constants
\* 5 * 60 * 1000 ms, in minutes
OtpWindow == 5
\* the loop bound of generateCaseId
SuffixLen == 6

NoValue == "<absent>"
NULL == "<null>"

Procs == 1..MaxProcs
Depts == {"D1", "D2"}
\* Math.random() * 900000, floored: the two ends of the range
OtpDraws == {0, 899999}
\* the contact field, as its characters: absent, empty, digits (with a
\* leading zero), or not a number
NoMobile == <<NoValue>>
Mobiles == {NoMobile, << >>, <<"7">>, <<"0", "7">>, <<"8">>, <<"x">>}

VARIABLES now, admins, login, codinCluc, missing_persons, resp, verified

vars == <<now, admins, login, codinCluc, missing_persons, resp, verified>>

\* !x of JavaScript on a body field: an absent or empty field is falsy
Missing(x) == x = NoValue \/ x = ""
MissingMobile(m) == m = NoMobile \/ m = << >>

\* ------------------------------------------------------------ OTP challenge
\* Math.floor(100000 + Math.random() * 900000).toString()
GenerateOtp(draw) == ToString(100000 + draw)

\* a window one minute too long
OtpExpiresLate(t) == t + OtpWindow + 1

\* new Date(Date.now() + 5 * 60 * 1000)
OtpExpires(t) == t + OtpWindow

\* SELECT id FROM admins WHERE department_id = $1
AdminIdsOf(rows, dept) == {i \in 1..Len(rows) : rows[i].department_id = dept}

\* UPDATE admins SET otp = $1, otp_expires = $2 WHERE department_id = $3
UpdateOtp(rows, dept, otp, expires) ==
  [i \in 1..Len(rows) |->
     IF rows[i].department_id = dept
       THEN [rows[i] EXCEPT !.otp = otp, !.otp_expires = expires]
       ELSE rows[i]]

\* INSERT INTO admins (..., department_id, ..., otp, otp_expires)
InsertAdmin(rows, dept, otp, expires) ==
  Append(rows, [id |-> Len(rows) + 1, department_id |-> dept,
                otp |-> otp, otp_expires |-> expires])

\* SELECT * FROM admins WHERE otp=$1 AND otp_expires > NOW()
MatchingAdmins(rows, otpInput, t) ==
  {i \in 1..Len(rows) : rows[i].otp = otpInput /\ rows[i].otp_expires > t}

Idle == [pc |-> "idle"]

FullLogin(dept) ==
  [name |-> "x", department_name |-> "x", department_id |-> dept,
   mobile_no |-> "7"]

LoginFields == {"name", "department_name", "department_id", "mobile_no"}

\* the request bodies of the model: complete ones, and ones with a single
\* field absent or empty
LoginBodies ==
  {FullLogin(d) : d \in Depts}
    \cup {[FullLogin("D1") EXCEPT ![f] = v] : f \in LoginFields, v \in {NoValue, ""}}

\* the required-field check of POST /adminLogin
LoginInvalid(body) ==
  Missing(body.name) \/ Missing(body.department_name)
    \/ Missing(body.department_id) \/ Missing(body.mobile_no)

\* POST /adminLogin with a field missing
LoginReject(body) ==
  /\ LoginInvalid(body)
  /\ resp' = [op |-> "adminLogin", success |-> FALSE,
              message |-> "All fields are required"]
  /\ UNCHANGED <<now, admins, login, codinCluc, missing_persons, verified>>

\* POST /adminLogin up to the answer of the SELECT
LoginBegin(p) ==
  /\ login[p].pc = "idle"
  /\ \E body \in LoginBodies, draw \in OtpDraws, storeOk \in BOOLEAN :
       /\ ~LoginInvalid(body)
       /\ IF storeOk
         THEN /\ login' = [login EXCEPT ![p] =
                     [pc |-> "write", department_id |-> body.department_id,
                      otp |-> GenerateOtp(draw), at |-> now,
                      expires |-> OtpExpires(now),
                      found |-> AdminIdsOf(admins, body.department_id) # {}]]
              /\ UNCHANGED resp
         ELSE /\ resp' = [op |-> "adminLogin", success |-> FALSE,
                          message |-> "Server error"]
              /\ UNCHANGED login
  /\ UNCHANGED <<now, admins, codinCluc, missing_persons, verified>>

\* POST /adminLogin from the UPDATE or INSERT to the response
LoginWrite(p) ==
  /\ login[p].pc = "write"
  /\ LET r == login[p] IN
     \E storeOk \in BOOLEAN :
       IF storeOk
         THEN /\ r.found \/ Len(admins) < MaxAdmins
              /\ admins' = IF r.found
                             THEN UpdateOtp(admins, r.department_id, r.otp, r.expires)
                             ELSE InsertAdmin(admins, r.department_id, r.otp, r.expires)
              /\ resp' = [op |-> "adminLogin", success |-> TRUE, otp |-> r.otp,
                          department_id |-> r.department_id, at |-> r.at]
         ELSE /\ resp' = [op |-> "adminLogin", success |-> FALSE,
                          message |-> "Server error"]
              /\ UNCHANGED admins
  /\ login' = [login EXCEPT ![p] = Idle]
  /\ UNCHANGED <<now, codinCluc, missing_persons, verified>>

OtpInputs == {GenerateOtp(d) : d \in OtpDraws} \cup {"000000"}

\* POST /verify-admin-otp
VerifyOtp(otpInput) ==
  /\ \E storeOk \in BOOLEAN :
       IF storeOk
         THEN LET ok == MatchingAdmins(admins, otpInput, now) # {} IN
              /\ resp' = [op |-> "verify", success |-> ok, otpInput |-> otpInput]
              /\ verified' = (verified \/ ok)
         ELSE /\ resp' = [op |-> "verify", success |-> FALSE,
                          message |-> "Database error"]
              /\ UNCHANGED verified
  /\ UNCHANGED <<now, admins, login, codinCluc, missing_persons>>

\* the clock of the server and of the store
Tick ==
  /\ now < MaxTime
  /\ now' = now + 1
  /\ UNCHANGED <<admins, login, codinCluc, missing_persons, resp, verified>>

\* ------------------------------------------------------ case identifiers
\* const chars = "ABCDEFGHIJKLMNOPQRSTUVWXYZ0123456789"
Chars ==
  <<"A", "B", "C", "D", "E", "F", "G", "H", "I", "J", "K", "L", "M",
    "N", "O", "P", "Q", "R", "S", "T", "U", "V", "W", "X", "Y", "Z",
    "0", "1", "2", "3", "4", "5", "6", "7", "8", "9">>

\* let id = "CASE-"
Prefix == <<"C", "A", "S", "E", "-">>

\* generateCaseId, given the 6 values of Math.floor(Math.random() * chars.length)
\* a generator whose loop ends one character early
GenerateCaseIdShort(draws) ==
  <<"C", "A", "S", "E", "-">>
    \o [i \in 1..(SuffixLen - 1) |->
         <<"A", "B", "C", "D", "E", "F", "G", "H", "I", "J", "K", "L", "M", "N",
           "O", "P", "Q", "R", "S", "T", "U", "V", "W", "X", "Y", "Z", "0", "1",
           "2", "3", "4", "5", "6", "7", "8", "9">>[draws[i] + 1]]

GenerateCaseId(draws) == Prefix \o [i \in 1..SuffixLen |-> Chars[draws[i] + 1]]

\* the random draws of the model: AAAAAA, BCDEFG, CEGIKM, ...
CaseDraws == {[i \in 1..SuffixLen |-> (k * i) % Len(Chars)] : k \in 0..MaxDraw}

\* the draws and the store's state a submission meets: a request refused by
\* the required-field check makes no draw and no query, and a store that is
\* down answers the same whatever was drawn
SubmitArgs(invalid) ==
  IF invalid THEN {<<[i \in 1..SuffixLen |-> 0], TRUE>>}
  ELSE {<<d, TRUE>> : d \in CaseDraws} \cup {<<[i \in 1..SuffixLen |-> 0], FALSE>>}

\* draws that put every character of the alphabet at every place, the draws
\* of the submissions among them
GenDraws ==
  {[i \in 1..SuffixLen |-> (x + i * y) % Len(Chars)] :
     x \in 0..(Len(Chars) - 1), y \in 0..MaxDraw}

\* generateCaseId() called on its own
Generate(draws) ==
  /\ resp' = [op |-> "generateCaseId", caseId |-> GenerateCaseId(draws)]
  /\ UNCHANGED <<now, admins, login, codinCluc, missing_persons, verified>>

\* --------------------------------------------------------------- the store
Digits == <<"0", "1", "2", "3", "4", "5", "6", "7", "8", "9">>

IsNumber(m) == Len(m) > 0 /\ \A i \in 1..Len(m) : \E d \in 1..Len(Digits) : Digits[d] = m[i]

DigitValue(c) == (CHOOSE d \in 1..Len(Digits) : Digits[d] = c) - 1

RECURSIVE NumberValue(_)
NumberValue(m) ==
  IF m = << >> THEN 0
  ELSE 10 * NumberValue(SubSeq(m, 1, Len(m) - 1)) + DigitValue(m[Len(m)])

\* a text parameter bound to a BIGINT column: undefined is sent as NULL
ToBigint(m) == IF m = NoMobile THEN NULL ELSE NumberValue(m)

\* a case_id column without its UNIQUE constraint
ComplaintInsertErrorNoUnique(rows, caseId, mobile) ==
  IF mobile # NoMobile /\ ~IsNumber(mobile) THEN "invalid"
  ELSE IF mobile = NoMobile THEN "notnull"
  ELSE "none"

\* why PostgreSQL refuses the INSERT INTO codinCluc, if it does:
\* mobile_no BIGINT NOT NULL, case_id TEXT UNIQUE
ComplaintInsertError(rows, caseId, mobile) ==
  IF mobile # NoMobile /\ ~IsNumber(mobile) THEN "invalid"
  ELSE IF mobile = NoMobile THEN "notnull"
  ELSE IF \E i \in 1..Len(rows) : rows[i].case_id = caseId THEN "conflict"
  ELSE "none"

\* an INSERT that is acknowledged and stores nothing
InsertComplaintNotStored(rows, caseId, body, image_path, t) == rows

\* the INSERT into a table whose status column has no default
InsertComplaintNoDefault(rows, caseId, body, image_path, t) ==
  Append(rows, [id |-> Len(rows) + 1, case_id |-> caseId,
                subject |-> body.subject, description |-> body.description,
                category |-> body.category, image_path |-> image_path,
                mobile_no |-> ToBigint(body.mobile), location |-> body.location,
                created_at |-> t, status |-> NULL])

\* INSERT INTO codinCluc (case_id, subject, description, category,
\* image_path, location, mobile_no): id, created_at and status by default
InsertComplaint(rows, caseId, body, image_path, t) ==
  Append(rows, [id |-> Len(rows) + 1, case_id |-> caseId,
                subject |-> body.subject, description |-> body.description,
                category |-> body.category, image_path |-> image_path,
                mobile_no |-> ToBigint(body.mobile), location |-> body.location,
                created_at |-> t, status |-> "Submitted"])

\* why PostgreSQL refuses the INSERT INTO missing_persons, if it does:
\* case_id TEXT UNIQUE NOT NULL, reporter_mobile BIGINT
MissingInsertError(rows, caseId, mobile) ==
  IF ~IsNumber(mobile) THEN "invalid"
  ELSE IF \E i \in 1..Len(rows) : rows[i].case_id = caseId THEN "conflict"
  ELSE "none"

\* INSERT INTO missing_persons (...): id, status and created_at by default
InsertMissing(rows, caseId, body, media_path, t) ==
  Append(rows, [id |-> Len(rows) + 1, case_id |-> caseId, name |-> body.name,
                age |-> body.age, gender |-> body.gender,
                last_seen_date |-> body.lastSeen,
                last_seen_location |-> body.location,
                description |-> body.description, media_path |-> media_path,
                reporter_mobile |-> ToBigint(body.reporter_mobile),
                status |-> "Active", created_at |-> t])

\* an update that flips the status instead of setting it
SetResolvedToggle(rows, id) ==
  [i \in 1..Len(rows) |->
     IF rows[i].id = id
       THEN [rows[i] EXCEPT !.status =
               IF rows[i].status = "Resolved" THEN "Submitted" ELSE "Resolved"]
       ELSE rows[i]]

\* a statement that removes the complaint instead of updating it
SetResolvedDelete(rows, id) == SelectSeq(rows, LAMBDA row : row.id # id)

\* the update without its WHERE clause
SetResolvedAll(rows, id) ==
  [i \in 1..Len(rows) |-> [rows[i] EXCEPT !.status = "Resolved"]]

\* UPDATE codinCluc SET status='Resolved' WHERE id=$1
SetResolved(rows, id) ==
  [i \in 1..Len(rows) |->
     IF rows[i].id = id THEN [rows[i] EXCEPT !.status = "Resolved"] ELSE rows[i]]

\* ------------------------------------------------------------- submissions
FullComplaint(m) ==
  [subject |-> "x", description |-> "x", location |-> "x", category |-> "x",
   mobile |-> m, file |-> (m = <<"8">>)]

ComplaintFields == {"subject", "description", "location", "category"}

\* the request bodies of the model: complete ones with every contact value
\* (the one of contact 8 with a media file), and ones with a single text field
\* absent or empty
ComplaintBodies ==
  {FullComplaint(m) : m \in Mobiles}
    \cup {[FullComplaint(<<"7">>) EXCEPT ![f] = v] :
            f \in ComplaintFields, v \in {NoValue, ""}}

\* req.file ? "/uploads/" + req.file.filename : null
MediaPath(file) == IF file THEN "/uploads/file" ELSE NULL

\* a required-field check that forgets the category
ComplaintInvalidNoCategory(body) ==
  Missing(body.subject) \/ Missing(body.description) \/ Missing(body.location)

\* the required-field check of POST /submitComplaint
ComplaintInvalid(body) ==
  Missing(body.subject) \/ Missing(body.description)
    \/ Missing(body.location) \/ Missing(body.category)

\* POST /submitComplaint
SubmitComplaint(body, draws, storeOk) ==
  /\ IF ComplaintInvalid(body)
       THEN /\ resp' = [op |-> "submitComplaint", status |-> 400,
                        success |-> FALSE, cause |-> "validation", inserts |-> 0,
                        missing |-> {f \in ComplaintFields : Missing(body[f])}]
            /\ UNCHANGED codinCluc
       ELSE LET caseId == GenerateCaseId(draws)
                err == IF storeOk
                         THEN ComplaintInsertError(codinCluc, caseId, body.mobile)
                         ELSE "store"
            IN IF err = "none"
                 THEN /\ Len(codinCluc) < MaxComplaints
                      /\ codinCluc' = InsertComplaint(codinCluc, caseId, body,
                                                      MediaPath(body.file), now)
                      /\ resp' = [op |-> "submitComplaint", status |-> 200,
                                  success |-> TRUE, cause |-> "none",
                                  inserts |-> 1, caseId |-> caseId]
                 ELSE /\ resp' = [op |-> "submitComplaint", status |-> 500,
                                  success |-> FALSE, cause |-> err, inserts |-> 1]
                      /\ UNCHANGED codinCluc
  /\ UNCHANGED <<now, admins, login, missing_persons, verified>>

FullMissing(m) ==
  [name |-> "x", age |-> "30", gender |-> "x", lastSeen |-> "2024-01-01",
   location |-> "x", description |-> "x", reporter_mobile |-> m,
   file |-> FALSE]

MissingFields == {"name", "age", "gender", "lastSeen", "location"}

\* the reports of the model come from one reporter, without a media file
MissingBodies ==
  {FullMissing(m) : m \in Mobiles \ {<<"8">>}}
    \cup {[FullMissing(<<"7">>) EXCEPT ![f] = NoValue] : f \in MissingFields}

\* the required-field check of POST /submit-missing-person
MissingInvalid(body) ==
  Missing(body.name) \/ Missing(body.age) \/ Missing(body.gender)
    \/ Missing(body.lastSeen) \/ Missing(body.location)
    \/ MissingMobile(body.reporter_mobile)

\* POST /submit-missing-person
SubmitMissingPerson(body, draws, storeOk) ==
  /\ IF MissingInvalid(body)
       THEN /\ resp' = [op |-> "submitMissing", status |-> 400,
                        success |-> FALSE, cause |-> "validation", inserts |-> 0]
            /\ UNCHANGED missing_persons
       ELSE LET caseId == GenerateCaseId(draws)
                err == IF storeOk
                         THEN MissingInsertError(missing_persons, caseId,
                                                 body.reporter_mobile)
                         ELSE "store"
            IN IF err = "none"
                 THEN /\ Len(missing_persons) < MaxMissing
                      /\ missing_persons' = InsertMissing(missing_persons, caseId,
                                                body, MediaPath(body.file), now)
                      /\ resp' = [op |-> "submitMissing", status |-> 200,
                                  success |-> TRUE, cause |-> "none",
                                  inserts |-> 1, caseId |-> caseId]
                 ELSE /\ resp' = [op |-> "submitMissing", status |-> 500,
                                  success |-> FALSE, cause |-> err, inserts |-> 1]
                      /\ UNCHANGED missing_persons
  /\ UNCHANGED <<now, admins, login, codinCluc, verified>>

\* --------------------------------------------------------------- lifecycle
\* the :id of /mark-resolved/:id, a path segment, as its characters
RowIds == {<<Digits[i + 1]>> : i \in 1..(MaxComplaints + 1)} \cup {<<"a">>}

\* POST /mark-resolved/:id; an :id that is no integer fails in the store
MarkResolved(id, storeOk) ==
  /\ IF storeOk /\ IsNumber(id)
       THEN /\ codinCluc' = SetResolved(codinCluc, NumberValue(id))
            /\ resp' = [op |-> "markResolved", success |-> TRUE]
       ELSE /\ resp' = [op |-> "markResolved", success |-> FALSE]
            /\ UNCHANGED codinCluc
  /\ UNCHANGED <<now, admins, login, missing_persons, verified>>

\* ---------------------------------------------------------------- tracking
\* the store sends a COUNT(*), a BIGINT, as its decimal text
RECURSIVE CountText(_)
CountText(n) ==
  IF n < 10 THEN <<Digits[n + 1]>>
            ELSE CountText(n \div 10) \o <<Digits[(n % 10) + 1]>>

\* parseInt(text, 10) || 0
ParseIntOrZero(text) == IF IsNumber(text) THEN NumberValue(text) ELSE 0

\* the query with the filter written in lower case
StatsQueryLowerCase(rows) ==
  [total |-> CountText(Len(rows)),
   resolved |-> CountText(Cardinality({i \in 1..Len(rows) :
                                        rows[i].status = "resolved"}))]

\* SELECT COUNT(*) AS total,
\*        COUNT(*) FILTER (WHERE status = 'Resolved') AS resolved FROM codinCluc
StatsQuery(rows) ==
  [total |-> CountText(Len(rows)),
   resolved |-> CountText(Cardinality({i \in 1..Len(rows) :
                                        rows[i].status = "Resolved"}))]

\* the stats object of the home page
HomeStats(row) ==
  LET total == ParseIntOrZero(row.total)
      resolved == ParseIntOrZero(row.resolved)
  IN [total |-> total, resolved |-> resolved, pending |-> total - resolved]

\* GET /
Home(storeOk) ==
  /\ resp' = [op |-> "home",
              stats |-> IF storeOk
                          THEN HomeStats(StatsQuery(codinCluc))
                          ELSE [total |-> 0, resolved |-> 0, pending |-> 0]]
  /\ UNCHANGED <<now, admins, login, codinCluc, missing_persons, verified>>

LowerChars ==
  <<"a", "b", "c", "d", "e", "f", "g", "h", "i", "j", "k", "l", "m",
    "n", "o", "p", "q", "r", "s", "t", "u", "v", "w", "x", "y", "z">>

\* UPPER() of the store, character by character
UpperChar(c) ==
  IF \E k \in 1..Len(LowerChars) : LowerChars[k] = c
    THEN Chars[CHOOSE k \in 1..Len(LowerChars) : LowerChars[k] = c]
    ELSE c

\* the characters of the texts compared here
TextChars ==
  {Chars[k] : k \in 1..Len(Chars)} \cup {LowerChars[k] : k \in 1..Len(LowerChars)}
    \cup {" ", "-"}

UpperTable == [c \in TextChars |-> UpperChar(c)]

Upper(text) == [i \in 1..Len(text) |-> UpperTable[text[i]]]

\* what a client may type for an upper-case letter
LowerChar(c) ==
  IF \E k \in 1..Len(LowerChars) : Chars[k] = c
    THEN LowerChars[CHOOSE k \in 1..Len(LowerChars) : Chars[k] = c]
    ELSE c

\* caseId.trim()
RECURSIVE Trim(_)
Trim(text) ==
  IF text = << >> THEN text
  ELSE IF Head(text) = " " THEN Trim(Tail(text))
  ELSE IF text[Len(text)] = " " THEN Trim(SubSeq(text, 1, Len(text) - 1))
  ELSE text

\* a request without caseId
NoCaseId == <<NoValue>>

\* !caseId
MissingCaseId(caseId) == caseId = NoCaseId \/ caseId = << >>

\* the ways a client writes the case id it was given
CaseVariants(caseId) ==
  {caseId,
   [i \in 1..Len(caseId) |-> LowerChar(caseId[i])],
   [i \in 1..Len(caseId) |-> IF i % 2 = 0 THEN LowerChar(caseId[i])
                                          ELSE caseId[i]],
   <<" ">> \o [i \in 1..Len(caseId) |-> LowerChar(caseId[i])] \o <<" ">>}

\* the case ids asked for: those a submission can have drawn and one more
TrackDraws ==
  CaseDraws \cup {[i \in 1..SuffixLen |-> Len(Chars) - i]}

TrackInputs ==
  UNION {CaseVariants(GenerateCaseId(d)) : d \in TrackDraws}
    \cup {NoCaseId, << >>, <<" ">>}

\* the comparison without UPPER()
TrackMatchesExact(rows, caseId) ==
  {i \in 1..Len(rows) : rows[i].case_id = caseId}

\* SELECT * FROM codinCluc WHERE UPPER(case_id) = UPPER($1)
TrackMatches(rows, caseId) ==
  {i \in 1..Len(rows) : Upper(rows[i].case_id) = Upper(caseId)}

\* a lookup that marks the complaint it shows as seen
TrackStatusMarking(caseId, storeOk) ==
  LET rows == IF MissingCaseId(caseId) \/ ~storeOk THEN {}
              ELSE TrackMatches(codinCluc, Trim(caseId)) IN
  /\ codinCluc' = [i \in 1..Len(codinCluc) |->
                     IF i \in rows
                       THEN [codinCluc[i] EXCEPT !.status = "In Review"]
                       ELSE codinCluc[i]]
  /\ \/ /\ rows = {}
        /\ resp' = [op |-> "trackStatus", complaint |-> NULL,
                    message |-> "Case ID not found"]
     \/ \E i \in rows :
          resp' = [op |-> "trackStatus", complaint |-> codinCluc'[i],
                   message |-> NULL]
  /\ UNCHANGED <<now, admins, login, missing_persons, verified>>

\* POST /trackStatus; result.rows[0] is whichever matching row comes first
TrackStatus(caseId, storeOk) ==
  /\ IF MissingCaseId(caseId)
       THEN resp' = [op |-> "trackStatus", complaint |-> NULL,
                     message |-> "Please enter a Case ID"]
       ELSE IF ~storeOk
         THEN resp' = [op |-> "trackStatus", complaint |-> NULL,
                       message |-> "Server error"]
         ELSE LET rows == TrackMatches(codinCluc, Trim(caseId)) IN
              IF rows = {}
                THEN resp' = [op |-> "trackStatus", complaint |-> NULL,
                              message |-> "Case ID not found"]
                ELSE \E i \in rows :
                       resp' = [op |-> "trackStatus", complaint |-> codinCluc[i],
                                message |-> NULL]
  /\ UNCHANGED <<now, admins, login, codinCluc, missing_persons, verified>>

\* the orders in which the store may return the rows ids, oldest first
OrderingsAscending(rows, ids) ==
  {order \in [1..Cardinality(ids) -> ids] :
     /\ \A a, b \in 1..Cardinality(ids) : order[a] = order[b] => a = b
     /\ \A a, b \in 1..Cardinality(ids) :
          a < b => rows[order[a]].created_at <= rows[order[b]].created_at}

\* ORDER BY created_at DESC: rows of one timestamp come in any order
Orderings(rows, ids) ==
  {order \in [1..Cardinality(ids) -> ids] :
     /\ \A a, b \in 1..Cardinality(ids) : order[a] = order[b] => a = b
     /\ \A a, b \in 1..Cardinality(ids) :
          a < b => rows[order[a]].created_at >= rows[order[b]].created_at}

\* WHERE mobile_no = $1, the parameter read as a BIGINT
MobileMatches(rows, mobile) ==
  {i \in 1..Len(rows) : rows[i].mobile_no = NumberValue(mobile)}

\* POST /my-complaints; a mobile that is no integer fails in the store
MyComplaints(mobile, storeOk) ==
  /\ IF MissingMobile(mobile)
       THEN resp' = [op |-> "myComplaints", complaints |-> << >>,
                     mobile |-> NULL,
                     message |-> "Please enter a mobile number."]
       ELSE IF ~storeOk \/ ~IsNumber(mobile)
         THEN resp' = [op |-> "myComplaints", complaints |-> << >>,
                       mobile |-> mobile,
                       message |-> "Error fetching complaints."]
         ELSE \E order \in Orderings(codinCluc, MobileMatches(codinCluc, mobile)) :
                resp' = [op |-> "myComplaints",
                         complaints |-> [k \in 1..Len(order) |->
                                           codinCluc[order[k]]],
                         mobile |-> mobile, message |-> NULL]
  /\ UNCHANGED <<now, admins, login, codinCluc, missing_persons, verified>>

Init ==
  /\ now = 0
  /\ admins = << >>
  /\ login = [p \in Procs |-> Idle]
  /\ codinCluc = << >>
  /\ missing_persons = << >>
  /\ resp = [op |-> "none"]
  /\ verified = FALSE

\* OTP requests one at a time, with the clock running
NextClock ==
  \/ Tick
  \/ \E body \in LoginBodies : LoginReject(body)
  \/ LoginBegin(1)
  \/ LoginWrite(1)
  \/ \E otpInput \in OtpInputs : VerifyOtp(otpInput)

SpecClock == Init /\ [][NextClock]_vars

\* concurrent OTP requests, within one minute
NextLogin ==
  \/ \E body \in LoginBodies : LoginReject(body)
  \/ \E p \in Procs : LoginBegin(p)
  \/ \E p \in Procs : LoginWrite(p)
  \/ \E otpInput \in OtpInputs : VerifyOtp(otpInput)

SpecLogin == Init /\ [][NextLogin]_vars

\* the submissions into the two case tables
NextSubmit ==
  \/ \E body \in ComplaintBodies : \E a \in SubmitArgs(ComplaintInvalid(body)) :
       SubmitComplaint(body, a[1], a[2])
  \/ \E body \in MissingBodies : \E a \in SubmitArgs(MissingInvalid(body)) :
       SubmitMissingPerson(body, a[1], a[2])

SpecSubmit == Init /\ [][NextSubmit]_vars

\* the life of a complaint: submission and the resolve transition
NextCases ==
  \/ \E body \in ComplaintBodies : \E a \in SubmitArgs(ComplaintInvalid(body)) :
       SubmitComplaint(body, a[1], a[2])
  \/ \E id \in RowIds : MarkResolved(id, TRUE)
  \/ MarkResolved(<<"1">>, FALSE)
  \/ \E storeOk \in BOOLEAN : Home(storeOk)

SpecCases == Init /\ [][NextCases]_vars

\* complaints and the public lookup by case id
NextTrack ==
  \/ \E body \in ComplaintBodies : \E a \in SubmitArgs(ComplaintInvalid(body)) :
       SubmitComplaint(body, a[1], a[2])
  \/ \E caseId \in TrackInputs : TrackStatus(caseId, TRUE)
  \/ TrackStatus(GenerateCaseId([i \in 1..SuffixLen |-> 0]), FALSE)

SpecTrack == Init /\ [][NextTrack]_vars

\* the complaints of one citizen in the model of both case tables
LifeBodies == {body \in ComplaintBodies : body.mobile = <<"7">>}

\* both case tables with the resolve transition and the public tracking
NextLife ==
  \/ \E body \in LifeBodies : \E a \in SubmitArgs(ComplaintInvalid(body)) :
       SubmitComplaint(body, a[1], a[2])
  \/ \E body \in MissingBodies : \E a \in SubmitArgs(MissingInvalid(body)) :
       SubmitMissingPerson(body, a[1], a[2])
  \/ \E id \in RowIds : MarkResolved(id, TRUE)
  \/ MarkResolved(<<"1">>, FALSE)
  \/ \E caseId \in TrackInputs : TrackStatus(caseId, TRUE)
  \/ TrackStatus(GenerateCaseId([i \in 1..SuffixLen |-> 0]), FALSE)
  \/ \E mobile \in Mobiles : MyComplaints(mobile, TRUE)
  \/ MyComplaints(<<"7">>, FALSE)
  \/ \E storeOk \in BOOLEAN : Home(storeOk)

SpecLife == Init /\ [][NextLife]_vars

\* complete complaints of several contacts
ListBodies ==
  {body \in ComplaintBodies :
     ~ComplaintInvalid(body) /\ body.mobile \in {<<"7">>, <<"8">>}}

\* complaints over time and the listing by contact
NextList ==
  \/ Tick
  \/ \E body \in ListBodies : \E a \in SubmitArgs(FALSE) :
       SubmitComplaint(body, a[1], a[2])
  \/ \E mobile \in Mobiles : MyComplaints(mobile, TRUE)
  \/ MyComplaints(<<"7">>, FALSE)

SpecList == Init /\ [][NextList]_vars

\* the generator on its own and inside the two submissions
NextGen ==
  \/ \E draws \in GenDraws : Generate(draws)
  \/ \E body \in LifeBodies : \E a \in SubmitArgs(ComplaintInvalid(body)) :
       SubmitComplaint(body, a[1], a[2])
  \/ \E body \in MissingBodies : \E a \in SubmitArgs(MissingInvalid(body)) :
       SubmitMissingPerson(body, a[1], a[2])

SpecGen == Init /\ [][NextGen]_vars

\* the admin entry path and the operations behind it
NextAccess ==
  \/ LoginBegin(1)
  \/ LoginWrite(1)
  \/ \E otpInput \in OtpInputs : VerifyOtp(otpInput)
  \/ \E body \in ComplaintBodies : \E a \in SubmitArgs(ComplaintInvalid(body)) :
       SubmitComplaint(body, a[1], a[2])
  \/ \E id \in RowIds : MarkResolved(id, TRUE)
  \/ MarkResolved(<<"1">>, FALSE)

SpecAccess == Init /\ [][NextAccess]_vars

\* ------------------------------------------------------------------ claims
\* the statuses the tracking page knows (getStatusColor)
Statuses == {"Submitted", "In Review", "Resolved", "Closed"}

UniqueCaseIds(rows) ==
  \A i, j \in 1..Len(rows) : rows[i].case_id = rows[j].case_id => i = j

HasCaseId(rows, caseId) == \E i \in 1..Len(rows) : rows[i].case_id = caseId

\* C1: in every reachable state no two rows of codinCluc, and no two rows of
\* missing_persons, carry the same case_id (so a submission whose generated
\* identifier is already in its table has added no row).
C1_CaseIdsUnique ==
  UniqueCaseIds(codinCluc) /\ UniqueCaseIds(missing_persons)

\* C1 witness: a complaint whose identifier collided was turned away while
\* the table holds the earlier row.
C1_CollisionRejected ==
  /\ resp.op = "submitComplaint" /\ resp.cause = "conflict"
  /\ Len(codinCluc) >= 1

\* C2 (as claimed): a valid complaint whose first generated identifier
\* collides, while another identifier the generator can return is free and the
\* store is up, still ends with the case persisted under a fresh identifier.
C2_RetryAfterCollision ==
  [][resp'.op = "submitComplaint" =>
     \A body \in ComplaintBodies, first, second \in CaseDraws :
       (/\ ~ComplaintInvalid(body) /\ IsNumber(body.mobile)
        /\ HasCaseId(codinCluc, GenerateCaseId(first))
        /\ ~HasCaseId(codinCluc, GenerateCaseId(second))
        /\ Len(codinCluc) < MaxComplaints
        /\ SubmitComplaint(body, first, TRUE))
         => Len(codinCluc') = Len(codinCluc) + 1 /\ resp'.success]_vars

OtherDeptHolds(rows, dept, otp) ==
  \E i \in 1..Len(rows) : rows[i].department_id # dept /\ rows[i].otp = otp

\* C3: a verify answered by the store succeeds exactly when some admin row
\* holds the submitted code with otp_expires later than the clock at that
\* moment; and a code issued at time T whose issue is the latest response is
\* accepted at every time before T + 5 min and, unless another department
\* holds the same code, rejected at every time from T + 5 min on.
C3_OtpWindow ==
  [][resp'.op = "verify" =>
     \A c \in OtpInputs :
       (VerifyOtp(c) /\ resp'.op = "verify" /\ "otpInput" \in DOMAIN resp'
          /\ resp'.otpInput = c)
         => /\ resp'.success <=>
                 \E i \in 1..Len(admins) :
                   admins[i].otp = c /\ now < admins[i].otp_expires
            /\ (resp.op = "adminLogin" /\ resp.success /\ resp.otp = c)
                 => /\ now < resp.at + OtpWindow => resp'.success
                    /\ (now >= resp.at + OtpWindow
                          /\ ~OtherDeptHolds(admins, resp.department_id, c))
                         => ~resp'.success]_vars

\* C3 witness: a verify of a stored code was rejected at the very minute the
\* code expires (T + 5 min).
C3_RejectedAtExpiry ==
  /\ resp.op = "verify" /\ "otpInput" \in DOMAIN resp /\ ~resp.success
  /\ \E i \in 1..Len(admins) :
       admins[i].otp = resp.otpInput /\ admins[i].otp_expires = now

\* C4 (as claimed): when an issue for a department completes right after an
\* earlier issue for the same department with a different code, and no other
\* department holds the earlier code, verify no longer accepts the earlier code.
C4_SecondIssueInvalidatesFirst ==
  [][(resp.op = "adminLogin" /\ resp'.op = "adminLogin") =>
     \A p \in Procs :
       (/\ LoginWrite(p)
        /\ resp.op = "adminLogin" /\ resp.success
        /\ resp'.op = "adminLogin" /\ resp'.success
        /\ resp'.department_id = resp.department_id
        /\ resp'.otp # resp.otp
        /\ ~OtherDeptHolds(admins', resp.department_id, resp.otp))
         => MatchingAdmins(admins', resp.otp, now') = {}]_vars

\* C5 (as claimed): the admins table holds at most one row per department_id,
\* and verify accepts at most one code per department.
C5_OneRowPerDepartment ==
  /\ \A i, j \in 1..Len(admins) :
       admins[i].department_id = admins[j].department_id => i = j
  /\ \A d \in Depts :
       Cardinality({c \in OtpInputs :
                      \E i \in MatchingAdmins(admins, c, now) :
                        admins[i].department_id = d}) <= 1

\* C6 (as claimed): a complaint is resolved only after some verify succeeded.
C6_ResolveOnlyAfterVerify ==
  (\E i \in 1..Len(codinCluc) : codinCluc[i].status = "Resolved") => verified

HasRowId(rows, id) == \E i \in 1..Len(rows) : rows[i].id = id

\* C7 (as claimed): mark-resolved with an :id that matches no complaint answers
\* success false and leaves every complaint as it was.
C7_UnknownIdNotFound ==
  [][resp'.op = "markResolved" =>
     \A id \in RowIds :
       ((IsNumber(id) => ~HasRowId(codinCluc, NumberValue(id)))
          /\ MarkResolved(id, TRUE))
         => ~resp'.success /\ codinCluc' = codinCluc]_vars

\* C8: mark-resolved on the id of an existing complaint, answered by the store,
\* reports success and leaves that complaint "Resolved" whatever its status
\* was; on a complaint already "Resolved" the table is unchanged, and applying
\* the update again to the result changes nothing.
C8_ResolveIdempotent ==
  [][resp'.op = "markResolved" =>
     \A id \in RowIds :
       (IsNumber(id) /\ HasRowId(codinCluc, NumberValue(id))
          /\ MarkResolved(id, TRUE))
         => LET n == NumberValue(id) IN
            /\ resp'.success
            /\ \A i \in 1..Len(codinCluc) :
                 codinCluc[i].id = n
                   => /\ codinCluc'[i].status = "Resolved"
                      /\ codinCluc[i].status = "Resolved" => codinCluc' = codinCluc
                      /\ \A st \in Statuses :
                           SetResolved([codinCluc EXCEPT ![i].status = st], n)
                             = codinCluc'
            /\ SetResolved(codinCluc', n) = codinCluc']_vars

\* C8 witness: mark-resolved has answered success and a complaint is "Resolved".
C8_Resolved ==
  /\ resp.op = "markResolved" /\ resp.success
  /\ \E i \in 1..Len(codinCluc) : codinCluc[i].status = "Resolved"

\* C9: a complaint submitted without category (absent or empty) is answered
\* 400 without success, and codinCluc, so its row count, is unchanged.
C9_NoCategoryNoRow ==
  [][resp'.op = "submitComplaint" =>
     \A body \in ComplaintBodies, draws \in CaseDraws, storeOk \in BOOLEAN :
       (Missing(body.category) /\ SubmitComplaint(body, draws, storeOk))
         => /\ resp'.status = 400 /\ ~resp'.success
            /\ Len(codinCluc') = Len(codinCluc)
            /\ codinCluc' = codinCluc]_vars

\* C9 witness: a submission was refused for its missing category while the
\* table holds a row.
C9_CategoryRefused ==
  /\ resp.op = "submitComplaint" /\ resp.status = 400
  /\ resp.missing = {"category"}
  /\ Len(codinCluc) >= 1

\* C10 (as claimed): a complaint lacking subject, description, category,
\* location or contact is answered 400 before any INSERT is sent.
C10_RequiredFieldsBeforeStore ==
  [][resp'.op = "submitComplaint" =>
     \A body \in ComplaintBodies, draws \in CaseDraws, storeOk \in BOOLEAN :
       ((ComplaintInvalid(body) \/ MissingMobile(body.mobile))
          /\ SubmitComplaint(body, draws, storeOk))
         => resp'.status = 400 /\ resp'.inserts = 0]_vars

\* C11 (as claimed): a code is good for one verification: once verify has
\* succeeded with a code and no new code was issued, no admin row accepts that
\* code any more, so a second verify with it inside the window is rejected.
C11_OtpSingleUse ==
  (resp.op = "verify" /\ resp.success)
    => MatchingAdmins(admins, resp.otpInput, now) = {}

ResolvedRows(rows) == {i \in 1..Len(rows) : rows[i].status = "Resolved"}

\* C12: every home page shows pending = total - resolved with
\* 0 <= resolved <= total and pending >= 0, the fallback after a store error
\* included; when the store answers, total is the number of complaint rows and
\* resolved the number of them whose status is "Resolved".
C12_HomeCounts ==
  [][resp'.op = "home" =>
     LET s == resp'.stats IN
     /\ s.pending = s.total - s.resolved
     /\ 0 <= s.resolved /\ s.resolved <= s.total /\ s.pending >= 0
     /\ Home(TRUE) => /\ s.total = Len(codinCluc)
                      /\ s.resolved = Cardinality(ResolvedRows(codinCluc))
     /\ Home(FALSE) => s.total = 0 /\ s.resolved = 0 /\ s.pending = 0]_vars

\* C12 witness: the home page counted a resolved and a pending complaint.
C12_MixedCounts ==
  /\ resp.op = "home"
  /\ resp.stats.resolved >= 1 /\ resp.stats.pending >= 1
  /\ resp.stats.total = Len(codinCluc)

\* C13: track-by-id compares case ids upper-cased: for every stored complaint,
\* asking with its case id in any mix of letter case (lower-cased, alternating,
\* lower-cased inside blanks) shows exactly that complaint; a request whose
\* case id, upper-cased, is the upper-cased case id of no stored complaint is
\* answered "Case ID not found" with no complaint.
C13_CaseInsensitiveLookup ==
  [][resp'.op = "trackStatus" =>
     /\ \A i \in 1..Len(codinCluc) :
          \A q \in CaseVariants(codinCluc[i].case_id) :
            TrackStatus(q, TRUE)
              => resp'.message = NULL /\ resp'.complaint = codinCluc[i]
     /\ \A q \in TrackInputs :
          (~MissingCaseId(q)
             /\ (\A i \in 1..Len(codinCluc) :
                   Upper(codinCluc[i].case_id) # Upper(Trim(q)))
             /\ TrackStatus(q, TRUE))
            => resp'.message = "Case ID not found" /\ resp'.complaint = NULL]_vars

\* C13 witness: a complaint was found although no stored case id is written
\* the way the request wrote it, and another complaint is stored beside it.
C13_FoundByLowerCase ==
  /\ resp.op = "trackStatus" /\ resp.message = NULL
  /\ Len(codinCluc) >= 2
  /\ \E q \in TrackInputs :
       /\ ~MissingCaseId(q)
       /\ ~HasCaseId(codinCluc, q)
       /\ Upper(Trim(q)) = resp.complaint.case_id

\* C14: a complaint just stored has status "Submitted" and a missing-person
\* case just stored has status "Active"; a complaint leaves "Submitted" only by
\* a mark-resolved call on its id, and track-by-id shows the stored row, so a
\* complaint is tracked as "Submitted" until mark-resolved is applied to it.
C14_DefaultStatus ==
  [][/\ (resp'.op = "submitComplaint" /\ resp'.success)
          => /\ Len(codinCluc') = Len(codinCluc) + 1
             /\ codinCluc'[Len(codinCluc')].case_id = resp'.caseId
             /\ codinCluc'[Len(codinCluc')].status = "Submitted"
     /\ (resp'.op = "submitMissing" /\ resp'.success)
          => /\ Len(missing_persons') = Len(missing_persons) + 1
             /\ missing_persons'[Len(missing_persons')].case_id = resp'.caseId
             /\ missing_persons'[Len(missing_persons')].status = "Active"
     /\ \/ codinCluc' = codinCluc
        \/ \A i \in 1..Len(codinCluc) :
             (codinCluc[i].status = "Submitted"
                /\ codinCluc'[i].status # "Submitted")
               => \E id \in RowIds :
                    /\ IsNumber(id) /\ NumberValue(id) = codinCluc[i].id
                    /\ MarkResolved(id, TRUE)
     /\ (resp'.op = "trackStatus" /\ resp'.message = NULL)
          => \E i \in 1..Len(codinCluc) : resp'.complaint = codinCluc[i]]_vars

\* C14 witness: a complaint is tracked as "Submitted" while another one has
\* been resolved and a missing-person case is stored.
C14_TrackedSubmitted ==
  /\ resp.op = "trackStatus" /\ resp.message = NULL
  /\ resp.complaint.status = "Submitted"
  /\ \E i \in 1..Len(codinCluc) : codinCluc[i].status = "Resolved"
  /\ \E i \in 1..Len(missing_persons) : missing_persons[i].status = "Active"

CaseIdsOf(rows) == {rows[i].case_id : i \in 1..Len(rows)}

\* C15: no step removes a complaint or a missing-person case, so the stored
\* case ids only grow; a stored complaint keeps every field but status, and its
\* status changes only in a mark-resolved step on its id; a stored
\* missing-person case keeps every field, its status included.
C15_RecordsKept ==
  [][/\ Len(codinCluc') >= Len(codinCluc)
     /\ Len(missing_persons') >= Len(missing_persons)
     /\ \/ codinCluc' = codinCluc
        \/ CaseIdsOf(codinCluc) \subseteq CaseIdsOf(codinCluc')
     /\ \/ missing_persons' = missing_persons
        \/ CaseIdsOf(missing_persons) \subseteq CaseIdsOf(missing_persons')
     /\ \/ codinCluc' = codinCluc
        \/ \A i \in 1..Len(codinCluc) :
             /\ [codinCluc'[i] EXCEPT !.status = codinCluc[i].status]
                  = codinCluc[i]
             /\ codinCluc'[i].status # codinCluc[i].status
                  => /\ resp'.op = "markResolved"
                     /\ \E id \in RowIds :
                          /\ IsNumber(id) /\ NumberValue(id) = codinCluc[i].id
                          /\ MarkResolved(id, TRUE)
     /\ \/ missing_persons' = missing_persons
        \/ \A i \in 1..Len(missing_persons) :
             missing_persons'[i] = missing_persons[i]]_vars

\* C15 witness: both tables are full, a complaint has been resolved and the
\* last request was a submission.
C15_FullTables ==
  /\ Len(codinCluc) = MaxComplaints /\ Len(missing_persons) = MaxMissing
  /\ \E i \in 1..Len(codinCluc) : codinCluc[i].status = "Resolved"
  /\ resp.op \in {"submitComplaint", "submitMissing"}

TrackingOps == {"trackStatus", "myComplaints", "home"}

\* C16: a track-by-id, track-by-contact or home-page request, whether it finds
\* something, finds nothing or fails, leaves the complaint table, the
\* missing-person table and the admin table exactly as they were. (Every
\* request ends with its response, so a step that ends with the response of a
\* tracking request is such a request.)
C16_TrackingReadsOnly ==
  [][resp'.op \in TrackingOps
       => /\ codinCluc' = codinCluc
          /\ missing_persons' = missing_persons
          /\ admins' = admins]_vars

\* C16 witness: a lookup has found a complaint, or a listing has shown one,
\* while both case tables hold rows and a complaint has been resolved.
C16_TrackedHit ==
  /\ \/ resp.op = "trackStatus" /\ resp.message = NULL
     \/ resp.op = "myComplaints" /\ Len(resp.complaints) >= 1
  /\ Len(codinCluc) >= 2 /\ Len(missing_persons) >= 1
  /\ \E i \in 1..Len(codinCluc) : codinCluc[i].status = "Resolved"

UpperAlnum ==
  {"A", "B", "C", "D", "E", "F", "G", "H", "I", "J", "K", "L", "M", "N", "O",
   "P", "Q", "R", "S", "T", "U", "V", "W", "X", "Y", "Z",
   "0", "1", "2", "3", "4", "5", "6", "7", "8", "9"}

WellFormedCaseId(id) ==
  /\ Len(id) = 5 + 6
  /\ SubSeq(id, 1, 5) = <<"C", "A", "S", "E", "-">>
  /\ \A i \in 6..Len(id) : id[i] \in UpperAlnum

\* C18: every case id the generator returns, every case id a submission
\* reports and every stored case id is "CASE-" followed by exactly 6
\* characters of the 36 characters A-Z, 0-9.
C18_CaseIdShape ==
  /\ Cardinality(UpperAlnum) = 36
  /\ "caseId" \in DOMAIN resp => WellFormedCaseId(resp.caseId)
  /\ \A i \in 1..Len(codinCluc) : WellFormedCaseId(codinCluc[i].case_id)
  /\ \A i \in 1..Len(missing_persons) :
       WellFormedCaseId(missing_persons[i].case_id)

\* C18 witness: the generator has returned a case id that a stored complaint
\* already has: it drew without looking at the table.
C18_GeneratedStoredId ==
  /\ resp.op = "generateCaseId"
  /\ \E i \in 1..Len(codinCluc) : codinCluc[i].case_id = resp.caseId

C20_ResolveTouchesOneRow ==
  [][/\ resp'.op = "markResolved"
          => \A id \in RowIds :
               MarkResolved(id, TRUE)
                 => /\ Len(codinCluc') = Len(codinCluc)
                    /\ \A i \in 1..Len(codinCluc) :
                         IF IsNumber(id) /\ codinCluc[i].id = NumberValue(id)
                           THEN codinCluc'[i]
                                  = [codinCluc[i] EXCEPT !.status = "Resolved"]
                           ELSE codinCluc'[i] = codinCluc[i]
                    /\ missing_persons' = missing_persons
                    /\ admins' = admins
     /\ \/ codinCluc' = codinCluc
        \/ \A i \in 1..Len(codinCluc) :
             codinCluc[i].status = "Resolved"
               => i <= Len(codinCluc') /\ codinCluc'[i].status = "Resolved"]_vars

\* C20 witness: mark-resolved has succeeded, one complaint is "Resolved",
\* another is still "Submitted", and a missing-person case is stored.
C20_OneOfTwoResolved ==
  /\ resp.op = "markResolved" /\ resp.success
  /\ \E i, j \in 1..Len(codinCluc) :
       codinCluc[i].status = "Resolved" /\ codinCluc[j].status = "Submitted"
  /\ Len(missing_persons) >= 1

====
